---- MODULE Spec2Model ----
(***************************************************************************)
(* AsyncUESynthClient (src/client/uesynth/__init__.py): the streaming      *)
(* session manager.  One client object, its two background tasks           *)
(* (_request_handler, _response_handler), the callers' operations          *)
(* (connect, _send_action and the facades over it, get_latest_frame, the   *)
(* unary calls, disconnect) and the stream as the tasks see it.  Every     *)
(* action is one run of the code between two suspension points (await) of  *)
(* the asyncio event loop.  Two further sections model connect called on a *)
(* connected client, with the tasks the first connect left behind, and two *)
(* client objects in one process, with one pass of a loop as one step.     *)
(* asyncio.wait_for raises the builtin TimeoutError (Python 3.11+), the    *)
(* exception the code catches.                                             *)
(***************************************************************************)
EXTENDS Integers, Naturals, Sequences, FiniteSets, TLC

(* ---- bounds of the model ---- *)
MaxSubmit == 2
MaxDisconnect == 2
MaxPayload == 2
MaxDim == 3
MaxPairSubmit == 1

(* ---- the data ---- *)
\* request ids: str(uuid.uuid4()) is modelled as a fresh number; 0 is the empty string
Ids == 1..MaxSubmit
EmptyId == 0

\* two client objects made by two calls of AsyncUESynthClient(), and the
\* request ids each of them draws
Sessions == {"A", "B"}
PairIds == 1..MaxPairSubmit

\* the callback argument of _send_action: None, a plain function, a plain
\* function that raises, a coroutine function
Callbacks == {"None", "sync", "sync_raises", "async"}

\* the oneof variants of ActionRequest the facades set
Actions == {"set_camera_transform"}

\* the None that disconnect puts on the queue
NoneItem == [request_id |-> EmptyId, action |-> "None"]

Envelope(id, a) == [request_id |-> id, action |-> a]

\* the request_id a caller has set on the request it hands to _send_action:
\* the empty string of a new ActionRequest, or an id of its own choice
CallerIds == {EmptyId} \cup Ids

\* the requests the callers hand to _send_action
Requests == {Envelope(id, a) : id \in CallerIds, a \in Actions}

\* the requests the facades hand to _send_action: a new ActionRequest with
\* one variant set and request_id left empty
FacadeRequests == {Envelope(EmptyId, a) : a \in Actions}

\* the oneof variants of a FrameResponse; "none" is a response with none set
Fields == {"image_response", "command_response", "camera_transform",
           "object_transform", "objects_list", "none"}

\* the keys of latest_responses
Kinds == {"image", "command", "camera_transform", "object_transform", "objects_list"}

Absent == 0
Payloads == 1..MaxPayload

\* the responses the stream delivers: images of every payload, and a command
\* response, a camera transform and a response with no variant set
Responses ==
    [request_id : {EmptyId} \cup Ids, field : {"image_response"}, payload : Payloads]
    \cup [request_id : {EmptyId} \cup Ids,
          field : {"command_response", "camera_transform", "none"}, payload : {1}]

VARIABLES
    channel,            \* self.channel: "None", "open", "closed"
    running,            \* self.running
    queueExists,        \* self.request_queue is not None
    request_queue,      \* the items of self.request_queue
    response_handlers,  \* self.response_handlers: request id -> callback ("None": no entry)
    latest_responses,   \* self.latest_responses: kind -> payload (Absent: no entry)
    response_task,      \* self.response_task: where _response_handler is suspended
    request_task,       \* self.request_task: where _request_handler is suspended
    sendReq,            \* the request _request_handler holds while it awaits stream.write
    cbReq,              \* the request id whose coroutine callback _response_handler awaits
    connPc,             \* where the caller's connect() is suspended
    discPc,             \* where the caller's disconnect() is suspended
    written,            \* the stream: the requests stream.write completed, in order
    doneWriting,        \* the stream: calls of done_writing
    closeCalls,         \* the channel: calls of close
    faults,             \* the stream: reads and writes that raised, and end of stream
    nextId,             \* the next fresh request id
    submitted,          \* the requests _send_action enqueued, in call order
    lastSubmit,         \* the last _send_action call: when, and how it ended
    invoked,            \* request id -> how often its callback was called
    raised,             \* callbacks that raised
    dispatched,         \* the last call of a callback: for which id, with what
    discCalls,          \* calls of disconnect
    discReturns,        \* calls of disconnect that ended
    discOutcome,        \* how the last ended call of disconnect ended
    discAtId,           \* nextId when disconnect was first called
    frame,              \* the last get_latest_frame: its result, and when it was called
    imageLog,           \* the payloads of the last two image responses the stream delivered
    cacheAtClose,       \* latest_responses when disconnect first ended
    reachable,          \* the engine listens at self.address
    facadeCall,         \* the last call of a streaming facade: which, and how it ended
    lastUnary,          \* the last unary call: which, the stub methods it called
    decoded,            \* the last image response decoded: by which method, into what
    strayRequest,       \* where the send task of an earlier connect is suspended
    strayResponse,      \* where the receive task of an earlier connect is suspended
    strayReq,           \* the request the send task of an earlier connect holds
    clients,            \* two clients: client -> its flags, task positions and stream
    handlerDicts,       \* the dicts made for response_handlers: dict -> its entries
    latestDicts,        \* the dicts made for latest_responses: dict -> its image entry
    queues              \* the queues made for request_queue: queue -> its items

vars == <<channel, running, queueExists, request_queue, response_handlers,
          latest_responses, response_task, request_task, sendReq, cbReq, connPc,
          discPc, written, doneWriting, closeCalls, faults, nextId,
          submitted, lastSubmit, invoked, raised, dispatched, discCalls,
          discReturns, discOutcome, discAtId, frame, imageLog, cacheAtClose,
          reachable, facadeCall, lastUnary, decoded,
          strayRequest, strayResponse, strayReq,
          clients, handlerDicts, latestDicts, queues>>

clientVars == <<channel, running, queueExists, request_queue, response_handlers,
                latest_responses>>
taskVars == <<response_task, request_task, sendReq, cbReq>>
streamVars == <<written, doneWriting, closeCalls, faults>>
submitVars == <<nextId, submitted, lastSubmit>>
callbackVars == <<invoked, raised, dispatched>>
discVars == <<discPc, discCalls, discReturns, discOutcome, discAtId, cacheAtClose>>
strayVars == <<strayRequest, strayResponse, strayReq>>
pairVars == <<clients, handlerDicts, latestDicts, queues>>
outsideVars == <<reachable, facadeCall, lastUnary, decoded, strayVars, pairVars>>

\* get_latest_frame has not been called
\* no facade has been called, no unary call has been made
NoFacadeCall == [facade |-> "none", outcome |-> "none", result |-> EmptyId]
NoUnary == [op |-> "none", rpcs |-> <<>>, outcome |-> "none"]

\* no image response has been decoded
NoDecode == [op |-> "none", height |-> 0, width |-> 0, bytes |-> 0,
             result |-> "none", shape |-> <<0, 0, 0>>]

\* no callback has been called
NoDispatch == [handler |-> EmptyId,
               argument |-> [request_id |-> EmptyId, field |-> "none", payload |-> Absent],
               cached |-> Absent]

NoCall == [result |-> "not called", shape |-> <<0, 0, 0>>, data |-> Absent,
           seen |-> Absent, closed |-> FALSE]

\* the last payload of a log of payloads
LastImage(log) == IF log = <<>> THEN Absent ELSE log[Len(log)]

\* the last two elements of a sequence
LastTwo(q) == IF Len(q) <= 2 THEN q ELSE SubSeq(q, Len(q) - 1, Len(q))

(* ---- __init__ ---- *)
\* the fields of a new client that hold no object of their own, and what
\* its stream has carried
NewClient == [running |-> FALSE, queueExists |-> FALSE, request_task |-> "None",
              response_task |-> "None", nextId |-> 1, written |-> <<>>,
              fired |-> <<>>, disc |-> "idle"]

\* the client, and the records of the calls made on it
SessionInit ==
    /\ channel = "None"
    /\ running = FALSE
    /\ queueExists = FALSE
    /\ request_queue = <<>>
    /\ response_handlers = [i \in Ids |-> "None"]
    /\ latest_responses = [k \in Kinds |-> Absent]
    /\ response_task = "None"
    /\ request_task = "None"
    /\ sendReq = NoneItem
    /\ cbReq = EmptyId
    /\ connPc = "idle"
    /\ discPc = "idle"
    /\ written = <<>>
    /\ doneWriting = 0
    /\ closeCalls = 0
    /\ faults = 0
    /\ nextId = 1
    /\ submitted = <<>>
    /\ lastSubmit = [closed |-> FALSE, created |-> FALSE, given |-> EmptyId,
                     writing |-> FALSE, outcome |-> "none", request_id |-> EmptyId]
    /\ invoked = [i \in Ids |-> 0]
    /\ raised = 0
    /\ dispatched = NoDispatch
    /\ discCalls = 0
    /\ discReturns = 0
    /\ discOutcome = "none"
    /\ discAtId = 0
    /\ frame = NoCall
    /\ imageLog = <<>>
    /\ cacheAtClose = [k \in Kinds |-> Absent]
    /\ reachable = TRUE
    /\ facadeCall = NoFacadeCall
    /\ lastUnary = NoUnary
    /\ strayRequest = "None"
    /\ strayResponse = "None"
    /\ strayReq = NoneItem
    /\ clients = [s \in Sessions |-> NewClient]
    /\ handlerDicts = [d \in Sessions |-> [i \in PairIds |-> "None"]]
    /\ latestDicts = [d \in Sessions |-> Absent]
    /\ queues = [q \in Sessions |-> <<>>]

Init ==
    /\ SessionInit
    /\ decoded = NoDecode

(* ---- the session state of the spec's state machine, read off the fields ---- *)
Phase ==
    IF discReturns > 0 THEN "Closed"
    ELSE IF discCalls > 0 THEN "Draining"
    ELSE IF connPc = "sleep" THEN "Connecting"
    ELSE IF channel = "None" THEN "Created"
    ELSE "Running"

(* ---- the engine ---- *)
\* no engine listens at the address when connect is called
engine_unreachable ==
    /\ reachable
    /\ connPc = "idle"
    /\ channel = "None"
    /\ reachable' = FALSE
    /\ UNCHANGED <<clientVars, taskVars, connPc, streamVars, submitVars, callbackVars,
                   discVars, frame, imageLog, facadeCall, lastUnary, decoded,
                   strayVars, pairVars>>

(* ---- connect, _start_streaming ---- *)
\* connect up to the sleep of _start_streaming: the channel and the stub are
\* made, running is set, the stream and the queue are made and both tasks are
\* created; each task runs to its first await when connect suspends.
\* This is the first connect of a client; connect_again is one after a
\* disconnect.
connect ==
    /\ connPc = "idle"
    /\ channel = "None"
    /\ discCalls = 0
    /\ channel' = "open"
    /\ running' = TRUE
    /\ queueExists' = TRUE
    /\ request_queue' = <<>>
    /\ response_task' = "read"
    /\ request_task' = "get"
    /\ connPc' = "sleep"
    /\ UNCHANGED <<response_handlers, latest_responses, sendReq, cbReq>>
    /\ UNCHANGED <<streamVars, submitVars, callbackVars, discVars, frame, imageLog,
                   outsideVars>>

\* connect is called again on a client whose disconnect has ended and has
\* closed the channel: the code tests nothing, it makes a new channel, a new
\* stream and a new queue, sets running and creates two new tasks (the tasks
\* of before have ended)
connect_again ==
    /\ connPc = "done"
    /\ discPc = "idle"
    /\ channel = "closed"
    /\ channel' = "open"
    /\ running' = TRUE
    /\ queueExists' = TRUE
    /\ request_queue' = <<>>
    /\ response_task' = "read"
    /\ request_task' = "get"
    /\ connPc' = "sleep"
    /\ UNCHANGED <<response_handlers, latest_responses, sendReq, cbReq>>
    /\ UNCHANGED <<streamVars, submitVars, callbackVars, discVars, frame, imageLog,
                   outsideVars>>

\* asyncio.sleep(0.1) is over: connect returns
connect_return ==
    /\ connPc = "sleep"
    /\ connPc' = "done"
    /\ UNCHANGED <<clientVars, taskVars, streamVars, submitVars, callbackVars,
                   discVars, frame, imageLog, outsideVars>>

(* ---- _send_action ---- *)
\* response_handlers after "if callback: self.response_handlers[request_id] = callback"
Register(handlers, id, callback) ==
    IF callback # "None" THEN [handlers EXCEPT ![id] = callback] ELSE handlers

\* a queue that takes a new item at its head
QueuePutFront(queue, item) == <<item>> \o queue

\* a request that keeps the request_id its caller has set
StampKeep(action_request, id) ==
    IF action_request.request_id = EmptyId
    THEN [action_request EXCEPT !.request_id = id]
    ELSE action_request

\* a queue in which a request overtakes a None at the tail
QueuePutBeforeNone(queue, item) ==
    IF queue # <<>> /\ queue[Len(queue)] = NoneItem /\ item # NoneItem
    THEN SubSeq(queue, 1, Len(queue) - 1) \o <<item, NoneItem>>
    ELSE Append(queue, item)

\* asyncio.Queue.put on the unbounded queue: the item goes to the tail
QueuePut(queue, item) == Append(queue, item)

\* "action_request.request_id = request_id": the request with the new id in
\* place of the one it came with
Stamp(action_request, id) == [action_request EXCEPT !.request_id = id]

\* a queue of size one: put suspends while an item is waiting
QueueFullAtOne(queue) == Len(queue) >= 1

\* asyncio.Queue.full of the queue asyncio.Queue() makes: it has no maximum
\* size, so put never waits for a free slot
QueueFull(queue) == FALSE

\* the body of _send_action(action_request, callback): the queue is never
\* full, so "await put" does not suspend.  With request_queue None the put
\* raises AttributeError, after the callback was registered.
submit(action_request, callback) ==
    /\ nextId <= MaxSubmit
    /\ LET id == nextId
           request == Stamp(action_request, id)
           call == [closed |-> Phase = "Closed", created |-> Phase = "Created",
                    given |-> action_request.request_id,
                    writing |-> request_task = "write"]
       IN /\ nextId' = nextId + 1
          /\ response_handlers' = Register(response_handlers, id, callback)
          /\ IF queueExists /\ ~QueueFull(request_queue)
             THEN /\ request_queue' = QueuePut(request_queue, request)
                  /\ submitted' = Append(submitted, request)
                  /\ lastSubmit' = call @@ [outcome |-> "returned", request_id |-> id]
             ELSE /\ lastSubmit' = call @@ [outcome |-> IF queueExists THEN "suspended"
                                                        ELSE "AttributeError",
                                            request_id |-> EmptyId]
                  /\ UNCHANGED <<request_queue, submitted>>
    /\ UNCHANGED <<channel, running, queueExists, latest_responses>>
    /\ UNCHANGED <<taskVars, connPc, streamVars, callbackVars, discVars, frame, imageLog>>

\* one call of _send_action by a caller of the client, whole
send_action(action_request, callback) ==
    /\ submit(action_request, callback)
    /\ UNCHANGED outsideVars

(* ---- the streaming facades: Camera, Capture, Objects ---- *)
\* the variants of the oneof of ActionRequest
Variants == {"set_camera_transform", "create_camera", "capture_rgb", "capture_depth",
             "capture_segmentation", "set_object_transform", "spawn_object"}

\* the methods of the facades that go through _send_action
Facades == {"camera.set_location", "camera.set_rotation", "camera.create",
            "capture.rgb", "capture.depth", "capture.segmentation",
            "objects.set_location", "objects.spawn"}

\* the variant each facade fills in
FacadeVariant(f) ==
    CASE f = "camera.set_location" -> "set_camera_transform"
      [] f = "camera.set_rotation" -> "set_camera_transform"
      [] f = "camera.create" -> "create_camera"
      [] f = "capture.rgb" -> "capture_rgb"
      [] f = "capture.depth" -> "capture_depth"
      [] f = "capture.segmentation" -> "capture_segmentation"
      [] f = "objects.set_location" -> "set_object_transform"
      [] f = "objects.spawn" -> "spawn_object"

\* uesynth_pb2.ActionRequest(): no request id, no variant set
ActionRequest == [request_id |-> EmptyId, action |-> "unset"]

\* a facade that sets no variant
SkipVariant(request, v) == request

\* "action_request.<variant>.CopyFrom(request)": the variant is set, in place
\* of any other of the oneof
CopyFrom(request, v) == [request EXCEPT !.action = v]

\* the request a facade builds
FacadeRequest(f) == CopyFrom(ActionRequest, FacadeVariant(f))

\* one call of a facade, whole: it builds its request and returns what
\* _send_action, called without a callback, returns or raises
facade(f) ==
    /\ submit(FacadeRequest(f), "None")
    /\ facadeCall' = [facade |-> f, outcome |-> lastSubmit'.outcome,
                      result |-> lastSubmit'.request_id]
    /\ UNCHANGED <<reachable, lastUnary, decoded, strayVars, pairVars>>

(* ---- the unary calls ---- *)
\* the unary methods of the async client and of its facades
AsyncUnaryOps == {"get_camera_location", "set_object_transform", "camera.get_location",
                  "capture.rgb_direct", "objects.set_transform_direct"}

\* the methods of the synchronous client UESynthClient
SyncOps == {"sync.camera.set_location", "sync.camera.set_rotation",
            "sync.camera.get_location", "sync.camera.create", "sync.capture.rgb",
            "sync.capture.depth", "sync.capture.segmentation",
            "sync.objects.set_location", "sync.objects.get_transform",
            "sync.objects.spawn"}

\* the stub method each of them calls
UnaryMethod(op) ==
    CASE op \in {"get_camera_location", "camera.get_location",
                 "sync.camera.get_location"} -> "GetCameraTransform"
      [] op \in {"set_object_transform", "objects.set_transform_direct",
                 "sync.objects.set_location"} -> "SetObjectTransform"
      [] op \in {"capture.rgb_direct", "sync.capture.rgb"} -> "CaptureRgbImage"
      [] op \in {"sync.camera.set_location", "sync.camera.set_rotation"}
            -> "SetCameraTransform"
      [] op = "sync.camera.create" -> "CreateCamera"
      [] op = "sync.capture.depth" -> "CaptureDepthMap"
      [] op = "sync.capture.segmentation" -> "CaptureSegmentationMask"
      [] op = "sync.objects.get_transform" -> "GetObjectTransform"
      [] op = "sync.objects.spawn" -> "SpawnObject"

\* a client whose stub is never set
StubNever(op, ch) == op \in SyncOps

\* the stub the call goes through exists: UESynthClient makes its stub in
\* __init__, AsyncUESynthClient in connect, together with the channel
StubExists(op, ch) == op \in SyncOps \/ ch # "None"

\* one unary call, whole as far as the client goes: the stub method is
\* called once and its answer returned; without an engine the call raises.
\* With self.stub None the attribute lookup raises before any call.
unary(op) ==
    /\ lastUnary' =
           IF StubExists(op, channel)
           THEN [op |-> op, rpcs |-> <<UnaryMethod(op)>>,
                 outcome |-> IF reachable THEN "returned" ELSE "RpcError"]
           ELSE [op |-> op, rpcs |-> <<>>, outcome |-> "AttributeError"]
    /\ UNCHANGED <<clientVars, taskVars, connPc, streamVars, submitVars, callbackVars,
                   discVars, frame, imageLog, reachable, facadeCall, decoded,
                   strayVars, pairVars>>

(* ---- _request_handler ---- *)
\* a send loop that does not test self.running
SendLoopForever(r) == "get"

\* "while self.running" at the top of the loop: the next wait on the queue,
\* or the finally block, which awaits stream.done_writing()
SendLoopTop(r) == IF r THEN "get" ELSE "done_writing"

\* a finally block that leaves the write half open
DoneWritingSkipped(task) == 0

\* "if self.stream: await self.stream.done_writing()": the call is made when
\* the task enters the finally block
DoneWritingCalls(task) == IF task = "done_writing" THEN 1 ELSE 0

\* a queue that hands out its newest item
QueueNewest(queue) == queue[Len(queue)]

\* asyncio.Queue.get: the item at the head
QueueHead(queue) == Head(queue)

\* wait_for(self.request_queue.get()) returns an item: None breaks the loop,
\* a request is handed to stream.write
request_get ==
    /\ request_task = "get"
    /\ request_queue # <<>>
    /\ LET request == QueueHead(request_queue)
       IN /\ request_queue' = Tail(request_queue)
          /\ IF request = NoneItem
             THEN /\ request_task' = "done_writing"
                  /\ UNCHANGED sendReq
             ELSE /\ request_task' = "write"
                  /\ sendReq' = request
    /\ doneWriting' = doneWriting + DoneWritingCalls(request_task')
    /\ UNCHANGED <<channel, running, queueExists, response_handlers, latest_responses>>
    /\ UNCHANGED <<response_task, cbReq, connPc, written, closeCalls,
                   faults, submitVars, callbackVars, discVars, frame, imageLog,
                   outsideVars>>

\* wait_for times out on the empty queue: "continue", back to the loop test
request_timeout ==
    /\ request_task = "get"
    /\ request_queue = <<>>
    /\ request_task' = SendLoopTop(running)
    /\ doneWriting' = doneWriting + DoneWritingCalls(request_task')
    /\ UNCHANGED <<clientVars, response_task, sendReq, cbReq, connPc, written,
                   closeCalls, faults, submitVars, callbackVars,
                   discVars, frame, imageLog, outsideVars>>

\* stream.write(request) returns, which it does on a stream to an engine:
\* task_done, back to the loop test
request_written ==
    /\ request_task = "write"
    /\ reachable
    /\ written' = Append(written, sendReq)
    /\ sendReq' = NoneItem
    /\ request_task' = SendLoopTop(running)
    /\ doneWriting' = doneWriting + DoneWritingCalls(request_task')
    /\ UNCHANGED <<clientVars, response_task, cbReq, connPc, closeCalls,
                   faults, submitVars, callbackVars, discVars, frame,
                   imageLog, outsideVars>>

\* a send loop that goes on to the next request after a write that raised
RetryAfterWriteError(r) == SendLoopTop(r)

\* "except Exception: ... break": the loop is left for the finally block
AfterWriteError(r) == "done_writing"

\* stream.write(request) raises: printed, "break"
request_write_error ==
    /\ request_task = "write"
    /\ sendReq' = NoneItem
    /\ faults' = faults + 1
    /\ request_task' = AfterWriteError(running)
    /\ doneWriting' = doneWriting + DoneWritingCalls(request_task')
    /\ UNCHANGED <<clientVars, response_task, cbReq, connPc, written,
                   closeCalls, submitVars, callbackVars, discVars, frame,
                   imageLog, outsideVars>>

\* finally: the awaited stream.done_writing() returns and the task ends
request_done_writing ==
    /\ request_task = "done_writing"
    /\ request_task' = "done"
    /\ UNCHANGED <<clientVars, response_task, sendReq, cbReq, connPc, streamVars,
                   submitVars, callbackVars, discVars, frame, imageLog, outsideVars>>

(* ---- _response_handler ---- *)
\* the chain of HasField tests: the key of latest_responses a response is
\* stored under ("" when no branch is taken)
CacheKey(field) ==
    IF field = "image_response" THEN "image"
    ELSE IF field = "command_response" THEN "command"
    ELSE IF field = "camera_transform" THEN "camera_transform"
    ELSE IF field = "object_transform" THEN "object_transform"
    ELSE IF field = "objects_list" THEN "objects_list"
    ELSE ""

\* a cache that keeps the first response of each kind
StoreFirst(cache, response) ==
    IF CacheKey(response.field) \in Kinds /\ cache[CacheKey(response.field)] = Absent
    THEN [cache EXCEPT ![CacheKey(response.field)] = response.payload]
    ELSE cache

\* a cache that is emptied before a response is stored
StoreAlone(cache, response) ==
    IF CacheKey(response.field) \in Kinds
    THEN [k \in Kinds |-> IF k = CacheKey(response.field) THEN response.payload
                          ELSE Absent]
    ELSE cache

\* a cache that stores only the responses that answer a request
StoreAnswered(cache, response) ==
    IF CacheKey(response.field) \in Kinds /\ response.request_id # EmptyId
    THEN [cache EXCEPT ![CacheKey(response.field)] = response.payload]
    ELSE cache

\* latest_responses after the block under the lock
Store(cache, response) ==
    IF CacheKey(response.field) \in Kinds
    THEN [cache EXCEPT ![CacheKey(response.field)] = response.payload]
    ELSE cache

\* a registry in which no request id is ever found
RegisteredNever(handlers, id) == FALSE

\* "request_id in self.response_handlers" and the callback found there
Registered(handlers, id) == id \in Ids /\ handlers[id] # "None"

\* "del self.response_handlers[request_id]"
Unregister(handlers, id) == [handlers EXCEPT ![id] = "None"]

\* "while self.running" at the top of the loop: the next stream.read(), or the
\* end of the task (its finally block sets running to False)
RecvLoopTop(r) == IF r THEN "read" ELSE "done"

\* a task that ends without its finally block
RunningKept(task, r) == r

\* "finally: self.running = False" when _response_handler has left its loop
RunningAfter(task, r) == IF task = "done" THEN FALSE ELSE r

\* a coroutine callback that is started and not awaited
DispatchNoAwait(cb, r) == IF cb = "sync_raises" THEN "done" ELSE RecvLoopTop(r)

\* where _response_handler goes after the callback of kind cb was called:
\* a coroutine callback is awaited, a raising one breaks the loop
AfterDispatch(cb, r) ==
    IF cb = "async" THEN "callback"
    ELSE IF cb = "sync_raises" THEN "done"
    ELSE RecvLoopTop(r)

\* the entry of the cache under the kind of a response
CacheEntry(cache, response) ==
    IF CacheKey(response.field) \in Kinds THEN cache[CacheKey(response.field)]
    ELSE Absent

\* a callback that is called before the response is stored
CacheBeforeStore(cache, response) == cache

\* latest_responses when the callback is called: the block under the lock
\* is over
CacheAtCallback(cache, response) == Store(cache, response)

\* a callback that is handed the payload without the request id
PayloadOnly(response) == [response EXCEPT !.request_id = EmptyId]

\* "callback(response)": what the callback is handed
CallbackArgument(response) == response

\* stream.read() returns a response, which only an engine sends: it is
\* stored, its callback is called
response_read(response) ==
    /\ response_task = "read"
    /\ reachable
    /\ latest_responses' = Store(latest_responses, response)
    /\ imageLog' = IF response.field = "image_response"
                   THEN LastTwo(Append(imageLog, response.payload))
                   ELSE imageLog
    /\ LET id == response.request_id
       IN IF Registered(response_handlers, id)
          THEN LET cb == response_handlers[id]
               IN /\ invoked' = [invoked EXCEPT ![id] = @ + 1]
                  /\ raised' = IF cb = "sync_raises" THEN raised + 1 ELSE raised
                  /\ dispatched' =
                         [handler |-> id,
                          argument |-> CallbackArgument(response),
                          cached |-> CacheEntry(CacheAtCallback(latest_responses, response),
                                                response)]
                  /\ response_handlers' = IF cb = "sync"
                                          THEN Unregister(response_handlers, id)
                                          ELSE response_handlers
                  /\ cbReq' = IF cb = "async" THEN id ELSE cbReq
                  /\ response_task' = AfterDispatch(cb, running)
          ELSE /\ response_task' = RecvLoopTop(running)
               /\ UNCHANGED <<invoked, raised, dispatched, response_handlers, cbReq>>
    /\ running' = RunningAfter(response_task', running)
    /\ UNCHANGED <<channel, queueExists, request_queue, request_task, sendReq, connPc,
                   written, doneWriting, closeCalls, faults, submitVars, discVars,
                   frame, outsideVars>>

\* the awaited coroutine callback returns: its entry is deleted
response_callback_done ==
    /\ response_task = "callback"
    /\ response_handlers' = Unregister(response_handlers, cbReq)
    /\ cbReq' = EmptyId
    /\ response_task' = RecvLoopTop(running)
    /\ running' = RunningAfter(response_task', running)
    /\ UNCHANGED <<channel, queueExists, request_queue, latest_responses, request_task,
                   sendReq, connPc, streamVars, submitVars, callbackVars, discVars,
                   frame, imageLog, outsideVars>>

\* stream.read() returns EOF, or raises: the loop is left, running is cleared
\* (the two differ in what is printed only)
response_end ==
    /\ response_task = "read"
    /\ response_task' = "done"
    /\ running' = FALSE
    /\ faults' = faults + 1
    /\ UNCHANGED <<channel, queueExists, request_queue, response_handlers,
                   latest_responses, request_task, sendReq, cbReq, connPc, written,
                   doneWriting, closeCalls, submitVars, callbackVars,
                   discVars, frame, imageLog, outsideVars>>

(* ---- get_latest_frame ---- *)
\* the image response whose payload is p: image_data holds 3 bytes for each
\* of 1 x p pixels
ImageResponse(p) == [image_data |-> 3 * p, height |-> 1, width |-> p, payload |-> p]

\* a reshape with height and width in each other's place
DecodeTransposed(img) ==
    IF img.height * img.width > 0 /\ img.image_data % (img.height * img.width) = 0
    THEN [result |-> "array",
          shape |-> <<img.width, img.height,
                      img.image_data \div (img.height * img.width)>>,
          data |-> img.payload]
    ELSE [result |-> "ValueError", shape |-> <<0, 0, 0>>, data |-> Absent]

\* np.frombuffer(image_data).reshape(height, width, -1): the last dimension
\* is inferred, and the call raises when it cannot be
Decode(img) ==
    IF img.height * img.width > 0 /\ img.image_data % (img.height * img.width) = 0
    THEN [result |-> "array",
          shape |-> <<img.height, img.width, img.image_data \div (img.height * img.width)>>,
          data |-> img.payload]
    ELSE [result |-> "ValueError", shape |-> <<0, 0, 0>>, data |-> Absent]

\* what get_latest_frame returns for the cache
LatestFrame(cache) ==
    IF cache["image"] # Absent
    THEN Decode(ImageResponse(cache["image"]))
    ELSE [result |-> "None", shape |-> <<0, 0, 0>>, data |-> Absent]

\* one call of get_latest_frame, whole: nothing is awaited while the lock is
\* held, so the lock is free whenever a task asks for it
get_latest_frame ==
    /\ LET r == LatestFrame(latest_responses)
       IN frame' = [result |-> r.result, shape |-> r.shape, data |-> r.data,
                    seen |-> LastImage(imageLog), closed |-> Phase = "Closed"]
    /\ UNCHANGED <<clientVars, taskVars, connPc, streamVars, submitVars, callbackVars,
                   discVars, imageLog, outsideVars>>

(* ---- the decoding of an image response ---- *)
\* the methods that decode an image response with frombuffer and reshape
DecodeOps == {"get_latest_frame", "capture.rgb_direct", "sync.capture.rgb"}

\* the sizes of an image response: height and width from 0, and a buffer of
\* up to MaxDim * MaxDim * MaxDim bytes
Dims == 0..MaxDim
Bytes == 0..(MaxDim * MaxDim * MaxDim)

\* the image responses handed to the three methods, not yet decoded
DecodeInputs ==
    [op : DecodeOps, height : Dims, width : Dims, bytes : Bytes,
     result : {"none"}, shape : {<<0, 0, 0>>}]

\* the method decodes the image response it was handed
decode_frame ==
    /\ decoded.op \in DecodeOps
    /\ decoded.result = "none"
    /\ LET r == Decode([image_data |-> decoded.bytes, height |-> decoded.height,
                        width |-> decoded.width, payload |-> Absent])
       IN decoded' = [decoded EXCEPT !.result = r.result, !.shape = r.shape]
    /\ UNCHANGED <<clientVars, taskVars, connPc, streamVars, submitVars, callbackVars,
                   discVars, frame, imageLog, reachable, facadeCall, lastUnary,
                   strayVars, pairVars>>

(* ---- disconnect ---- *)
\* a disconnect that waits for every task but one that has finished
TaskOverIfDone(task) == task = "done"

\* a task disconnect does not wait for: "if self.response_task" is false for
\* None, and wait_for returns at once for a task that has finished
TaskOver(task) == task \in {"None", "done"}

\* a wait without a timeout
WaitNeverTimesOut(task) == FALSE

\* wait_for(task, timeout=2.0) can time out: the task has not ended
WaitTimesOut(task) == task \notin {"None", "done", "cancelled"}

\* from "if self.request_task": disconnect suspends in wait_for, goes on to
\* close the channel, or ends with the CancelledError that awaiting a
\* cancelled task raises
FromRequestWait(qt) ==
    IF TaskOver(qt) THEN "close"
    ELSE IF qt = "cancelled" THEN "raise"
    ELSE "wait_request"

\* a disconnect that waits for no task
CloseAtOnce(rt, qt) == "close"

\* the same from "if self.response_task"
FromResponseWait(rt, qt) ==
    IF TaskOver(rt) THEN FromRequestWait(qt)
    ELSE IF rt = "cancelled" THEN "raise"
    ELSE "wait_response"

\* "if self.channel: await self.channel.close()"
ChannelAfterClose(ch) == IF ch = "None" THEN "None" ELSE "closed"
CloseCallsOf(ch) == IF ch = "None" THEN 0 ELSE 1

\* disconnect runs on from stage s to its next suspension point or to its end
DisconnectGoesOn(s) ==
    /\ channel' = IF s = "close" THEN ChannelAfterClose(channel) ELSE channel
    /\ closeCalls' = IF s = "close" THEN closeCalls + CloseCallsOf(channel)
                     ELSE closeCalls
    /\ discPc' = IF s = "close" THEN (IF channel = "None" THEN "idle" ELSE "closing")
                 ELSE IF s = "raise" THEN "idle"
                 ELSE s
    /\ discReturns' = IF discPc' = "idle" THEN discReturns + 1 ELSE discReturns
    /\ discOutcome' = IF discPc' # "idle" THEN discOutcome
                      ELSE IF s = "raise" THEN "CancelledError"
                      ELSE "returned"
    /\ cacheAtClose' = IF discPc' = "idle" /\ discReturns = 0 THEN latest_responses
                       ELSE cacheAtClose

\* disconnect is called: running is cleared, None is put on the queue, and
\* the call runs to its first suspension point
disconnect ==
    /\ discPc = "idle"
    /\ discCalls < MaxDisconnect
    /\ discCalls' = discCalls + 1
    /\ discAtId' = IF discCalls = 0 THEN nextId ELSE discAtId
    /\ running' = FALSE
    /\ request_queue' = IF queueExists THEN QueuePut(request_queue, NoneItem)
                        ELSE request_queue
    /\ DisconnectGoesOn(FromResponseWait(response_task, request_task))
    /\ UNCHANGED <<queueExists, response_handlers, latest_responses>>
    /\ UNCHANGED <<taskVars, connPc, written, doneWriting, faults,
                   submitVars, callbackVars, frame, imageLog, outsideVars>>

\* wait_for(self.response_task) returns: the task has ended
disconnect_response_finished ==
    /\ discPc = "wait_response"
    /\ TaskOver(response_task)
    /\ DisconnectGoesOn(FromRequestWait(request_task))
    /\ UNCHANGED <<running, queueExists, request_queue, response_handlers,
                   latest_responses>>
    /\ UNCHANGED <<taskVars, connPc, written, doneWriting, faults,
                   submitVars, callbackVars, discCalls, discAtId, frame, imageLog,
                   outsideVars>>

\* wait_for(self.response_task) times out: it cancels the task, whose finally
\* block clears running, and raises TimeoutError when the task has ended;
\* the cancel() of the except block then changes nothing.  The model keeps
\* no clock: the timeout may fire whenever the task has not ended.
disconnect_response_timeout ==
    /\ discPc = "wait_response"
    /\ WaitTimesOut(response_task)
    /\ response_task' = "cancelled"
    /\ cbReq' = EmptyId
    /\ running' = FALSE
    /\ DisconnectGoesOn(FromRequestWait(request_task))
    /\ UNCHANGED <<queueExists, request_queue, response_handlers, latest_responses>>
    /\ UNCHANGED <<request_task, sendReq, connPc, written, doneWriting,
                   faults, submitVars, callbackVars, discCalls, discAtId, frame,
                   imageLog, outsideVars>>

\* wait_for(self.request_task) returns: the task has ended
disconnect_request_finished ==
    /\ discPc = "wait_request"
    /\ TaskOver(request_task)
    /\ DisconnectGoesOn("close")
    /\ UNCHANGED <<running, queueExists, request_queue, response_handlers,
                   latest_responses>>
    /\ UNCHANGED <<taskVars, connPc, written, doneWriting, faults,
                   submitVars, callbackVars, discCalls, discAtId, frame, imageLog,
                   outsideVars>>

\* wait_for(self.request_task) times out: it cancels the task, whose finally
\* block calls done_writing unless the task was already awaiting it
disconnect_request_timeout ==
    /\ discPc = "wait_request"
    /\ WaitTimesOut(request_task)
    /\ request_task' = "cancelled"
    /\ sendReq' = NoneItem
    /\ doneWriting' = IF request_task = "done_writing" THEN doneWriting
                      ELSE doneWriting + 1
    /\ DisconnectGoesOn("close")
    /\ UNCHANGED <<running, queueExists, request_queue, response_handlers,
                   latest_responses>>
    /\ UNCHANGED <<response_task, cbReq, connPc, written, faults,
                   submitVars, callbackVars, discCalls, discAtId, frame, imageLog,
                   outsideVars>>

\* the awaited channel.close() returns: disconnect returns
disconnect_return ==
    /\ discPc = "closing"
    /\ discPc' = "idle"
    /\ discReturns' = discReturns + 1
    /\ discOutcome' = "returned"
    /\ cacheAtClose' = IF discReturns = 0 THEN latest_responses ELSE cacheAtClose
    /\ UNCHANGED <<clientVars, taskVars, connPc, streamVars, submitVars, callbackVars,
                   discCalls, discAtId, frame, imageLog, outsideVars>>

(* ---- connect on a client that is connected ---- *)
\* a task that has not ended
LiveTask(task) == task \notin {"None", "done", "cancelled"}

\* connect is called a second time, with no disconnect in between, on a
\* client whose queue is empty, whose send task waits for an item and whose
\* receive task waits for a response or has ended: the code tests nothing;
\* the fields are assigned a new channel, stream and queue and two new
\* tasks, and the tasks of the first connect, which nothing cancels, go on
connect_twice ==
    /\ connPc = "done"
    /\ channel = "open"
    /\ discCalls = 0
    /\ strayRequest = "None"
    /\ strayResponse = "None"
    /\ request_queue = <<>>
    /\ request_task = "get"
    /\ response_task \in {"read", "done"}
    /\ channel' = "open"
    /\ running' = TRUE
    /\ queueExists' = TRUE
    /\ request_queue' = <<>>
    /\ response_task' = "read"
    /\ request_task' = "get"
    /\ connPc' = "sleep"
    /\ strayRequest' = IF LiveTask(request_task) THEN "old_get" ELSE "None"
    /\ strayResponse' = IF LiveTask(response_task) THEN "old_read" ELSE "None"
    /\ UNCHANGED <<response_handlers, latest_responses, sendReq, cbReq, strayReq>>
    /\ UNCHANGED <<streamVars, submitVars, callbackVars, discVars, frame, imageLog,
                   reachable, facadeCall, lastUnary, decoded, pairVars>>

\* the send task of the first connect: its wait times out, on the queue of
\* the first connect, which nobody fills any more, or on self.request_queue
\* when that is empty; back to the loop test
stray_request_timeout ==
    /\ \/ strayRequest = "old_get"
       \/ strayRequest = "get" /\ request_queue = <<>>
    /\ strayRequest' = SendLoopTop(running)
    /\ doneWriting' = doneWriting + DoneWritingCalls(strayRequest')
    /\ UNCHANGED <<clientVars, taskVars, connPc, written, closeCalls, faults,
                   submitVars, callbackVars, discVars, frame, imageLog,
                   reachable, facadeCall, lastUnary, decoded, strayResponse, strayReq,
                   pairVars>>

\* the send task of the first connect takes an item from self.request_queue,
\* the queue of the second connect
stray_request_get ==
    /\ strayRequest = "get"
    /\ request_queue # <<>>
    /\ LET request == QueueHead(request_queue)
       IN /\ request_queue' = Tail(request_queue)
          /\ IF request = NoneItem
             THEN /\ strayRequest' = "done_writing"
                  /\ UNCHANGED strayReq
             ELSE /\ strayRequest' = "write"
                  /\ strayReq' = request
    /\ doneWriting' = doneWriting + DoneWritingCalls(strayRequest')
    /\ UNCHANGED <<channel, running, queueExists, response_handlers, latest_responses>>
    /\ UNCHANGED <<taskVars, connPc, written, closeCalls, faults, submitVars,
                   callbackVars, discVars, frame, imageLog,
                   reachable, facadeCall, lastUnary, decoded, strayResponse, pairVars>>

\* its write to self.stream returns
stray_request_written ==
    /\ strayRequest = "write"
    /\ reachable
    /\ written' = Append(written, strayReq)
    /\ strayReq' = NoneItem
    /\ strayRequest' = SendLoopTop(running)
    /\ doneWriting' = doneWriting + DoneWritingCalls(strayRequest')
    /\ UNCHANGED <<clientVars, taskVars, connPc, closeCalls, faults, submitVars,
                   callbackVars, discVars, frame, imageLog,
                   reachable, facadeCall, lastUnary, decoded, strayResponse, pairVars>>

\* its finally block: the awaited done_writing returns and the task ends
stray_request_done_writing ==
    /\ strayRequest = "done_writing"
    /\ strayRequest' = "done"
    /\ UNCHANGED <<clientVars, taskVars, connPc, streamVars, submitVars, callbackVars,
                   discVars, frame, imageLog, reachable, facadeCall, lastUnary, decoded,
                   strayResponse, strayReq, pairVars>>

\* the receive task of the first connect reads a response for which no
\* callback is registered, from the stream of the first connect or, from its
\* second read on, from self.stream: it is stored, and the loop goes on
stray_response_read(response) ==
    /\ strayResponse \in {"old_read", "read"}
    /\ reachable
    /\ ~Registered(response_handlers, response.request_id)
    /\ latest_responses' = Store(latest_responses, response)
    /\ imageLog' = IF response.field = "image_response"
                   THEN LastTwo(Append(imageLog, response.payload))
                   ELSE imageLog
    /\ strayResponse' = RecvLoopTop(running)
    /\ running' = RunningAfter(strayResponse', running)
    /\ UNCHANGED <<channel, queueExists, request_queue, response_handlers>>
    /\ UNCHANGED <<taskVars, connPc, streamVars, submitVars, callbackVars, discVars,
                   frame, reachable, facadeCall, lastUnary, decoded, strayRequest,
                   strayReq, pairVars>>

\* its read returns EOF or raises: the loop is left and the finally block
\* clears self.running, the flag of the second connect
stray_response_end ==
    /\ strayResponse \in {"old_read", "read"}
    /\ strayResponse' = "done"
    /\ running' = FALSE
    /\ faults' = faults + 1
    /\ UNCHANGED <<channel, queueExists, request_queue, response_handlers,
                   latest_responses>>
    /\ UNCHANGED <<taskVars, connPc, written, doneWriting, closeCalls, submitVars,
                   callbackVars, discVars, frame, imageLog, reachable, facadeCall,
                   lastUnary, decoded, strayRequest, strayReq, pairVars>>

(* ---- two clients in one process ---- *)
\* the variables of the one client of the actions above
soloVars == <<clientVars, taskVars, connPc, streamVars, submitVars, callbackVars,
              discVars, frame, imageLog, reachable, facadeCall, lastUnary, decoded,
              strayVars>>

\* a dict made once, in the class body, for every client
ClassDict(s) == "A"

\* "self.response_handlers = {}", "self.latest_responses = {}" in __init__
\* and "self.request_queue = asyncio.Queue()" in _start_streaming: which
\* dict or queue the field of client s holds; each call makes a new one
HandlersOf(s) == s
LatestOf(s) == s
QueueOf(s) == s

\* the image responses the engine of a client sends
PairResponses == [request_id : PairIds, field : {"image_response"}, payload : {1}]

\* connect on client s, whole (the sleep of _start_streaming included)
pair_connect(s) ==
    /\ clients[s].request_task = "None"
    /\ clients[s].disc = "idle"
    /\ clients' = [clients EXCEPT ![s].running = TRUE, ![s].queueExists = TRUE,
                                  ![s].request_task = "get",
                                  ![s].response_task = "read"]
    /\ queues' = [queues EXCEPT ![QueueOf(s)] = <<>>]
    /\ UNCHANGED <<handlerDicts, latestDicts, soloVars>>

\* _send_action on client s, whole
pair_send_action(s, callback) ==
    LET id == clients[s].nextId
        request == Stamp(Envelope(EmptyId, "set_camera_transform"), id)
    IN /\ id <= MaxPairSubmit
       /\ clients' = [clients EXCEPT ![s].nextId = id + 1]
       /\ handlerDicts' = [handlerDicts EXCEPT
                              ![HandlersOf(s)] = Register(@, id, callback)]
       /\ queues' = IF clients[s].queueExists
                    THEN [queues EXCEPT ![QueueOf(s)] = QueuePut(@, request)]
                    ELSE queues
       /\ UNCHANGED <<latestDicts, soloVars>>

\* one pass of the send loop of client s: the wait on the queue times out, or
\* it returns None, or it returns a request and the write of it returns
pair_request_step(s) ==
    LET queue == queues[QueueOf(s)]
    IN /\ clients[s].request_task = "get"
       /\ IF queue = <<>>
          THEN /\ clients' = [clients EXCEPT
                                 ![s].request_task = SendLoopTop(clients[s].running)]
               /\ UNCHANGED queues
          ELSE /\ queues' = [queues EXCEPT ![QueueOf(s)] = Tail(queue)]
               /\ clients' =
                      IF QueueHead(queue) = NoneItem
                      THEN [clients EXCEPT ![s].request_task = "done_writing"]
                      ELSE [clients EXCEPT
                               ![s].written = Append(@, QueueHead(queue)),
                               ![s].request_task = SendLoopTop(clients[s].running)]
       /\ UNCHANGED <<handlerDicts, latestDicts, soloVars>>

\* one pass of the receive loop of client s: the response is stored, its
\* callback, a plain function, is called and its entry deleted
pair_response_read(s, response) ==
    LET id == response.request_id
        handlers == handlerDicts[HandlersOf(s)]
        top == RecvLoopTop(clients[s].running)
    IN /\ clients[s].response_task = "read"
       /\ latestDicts' = [latestDicts EXCEPT ![LatestOf(s)] = response.payload]
       /\ handlerDicts' = IF handlers[id] # "None"
                          THEN [handlerDicts EXCEPT
                                   ![HandlersOf(s)] = Unregister(handlers, id)]
                          ELSE handlerDicts
       /\ clients' = [clients EXCEPT
                         ![s].fired = IF handlers[id] # "None" THEN Append(@, id) ELSE @,
                         ![s].response_task = top,
                         ![s].running = RunningAfter(top, @)]
       /\ UNCHANGED <<queues, soloVars>>

\* the stream of client s ends or its read raises
pair_response_end(s) ==
    /\ clients[s].response_task = "read"
    /\ clients' = [clients EXCEPT ![s].response_task = "done", ![s].running = FALSE]
    /\ UNCHANGED <<handlerDicts, latestDicts, queues, soloVars>>

\* disconnect is called on client s, for the first time: up to its first wait
pair_disconnect(s) ==
    /\ clients[s].disc = "idle"
    /\ clients' = [clients EXCEPT
                      ![s].running = FALSE,
                      ![s].disc = IF /\ TaskOver(clients[s].response_task)
                                     /\ TaskOver(clients[s].request_task)
                                  THEN "done" ELSE "waiting"]
    /\ queues' = IF clients[s].queueExists
                 THEN [queues EXCEPT ![QueueOf(s)] = QueuePut(@, NoneItem)]
                 ELSE queues
    /\ UNCHANGED <<handlerDicts, latestDicts, soloVars>>

\* the waits of that disconnect end, each task having ended or been
\* cancelled at the timeout, and the channel is closed
pair_disconnect_return(s) ==
    /\ clients[s].disc = "waiting"
    /\ clients' = [clients EXCEPT
                      ![s].disc = "done",
                      ![s].running = FALSE,
                      ![s].response_task = IF TaskOver(@) THEN @ ELSE "cancelled",
                      ![s].request_task = IF TaskOver(@) THEN @ ELSE "cancelled"]
    /\ UNCHANGED <<handlerDicts, latestDicts, queues, soloVars>>

\* a step of client s or of one of its tasks; its requests have a plain
\* callback
ClientStep(s) ==
    \/ pair_connect(s)
    \/ pair_send_action(s, "sync")
    \/ pair_request_step(s)
    \/ \E response \in PairResponses : pair_response_read(s, response)
    \/ pair_response_end(s)
    \/ pair_disconnect(s)
    \/ pair_disconnect_return(s)

PairNext == \E s \in Sessions : ClientStep(s)

PairSpec == Init /\ [][PairNext]_vars

(* ---- the client, its tasks and its callers ---- *)
Next ==
    \/ connect
    \/ connect_return
    \/ \E action_request \in Requests, callback \in Callbacks :
           send_action(action_request, callback)
    \/ request_get
    \/ request_timeout
    \/ request_written
    \/ request_write_error
    \/ request_done_writing
    \/ \E response \in Responses : response_read(response)
    \/ response_callback_done
    \/ response_end
    \/ get_latest_frame
    \/ disconnect
    \/ disconnect_response_finished
    \/ disconnect_response_timeout
    \/ disconnect_request_finished
    \/ disconnect_request_timeout
    \/ disconnect_return

\* every operation with every input, on a client that is connected once to
\* an engine that listens
Spec == Init /\ [][Next]_vars

\* the sending side: a stream that delivers nothing
SendNext ==
    \/ connect
    \/ connect_return
    \/ \E action_request \in Requests, callback \in {"None", "sync"} :
           send_action(action_request, callback)
    \/ request_get
    \/ request_timeout
    \/ request_written
    \/ request_write_error
    \/ request_done_writing
    \/ response_end
    \/ disconnect
    \/ disconnect_response_finished
    \/ disconnect_response_timeout
    \/ disconnect_request_finished
    \/ disconnect_request_timeout
    \/ disconnect_return

SendSpec == Init /\ [][SendNext]_vars

\* the callbacks: requests with every kind of callback, command responses
\* with every request id
CallbackResponses ==
    [request_id : {EmptyId} \cup Ids, field : {"command_response"}, payload : {1}]

CallbackNext ==
    \/ connect
    \/ connect_return
    \/ \E action_request \in FacadeRequests, callback \in Callbacks :
           send_action(action_request, callback)
    \/ request_get
    \/ request_timeout
    \/ request_written
    \/ request_done_writing
    \/ \E response \in CallbackResponses : response_read(response)
    \/ response_callback_done
    \/ response_end
    \/ disconnect
    \/ disconnect_response_finished
    \/ disconnect_response_timeout
    \/ disconnect_request_finished
    \/ disconnect_request_timeout
    \/ disconnect_return

CallbackSpec == Init /\ [][CallbackNext]_vars

\* the cache: requests without callbacks; image responses, command responses
\* and responses with no variant set, of every payload, that answer no request
CacheResponses ==
    [request_id : {EmptyId}, field : {"image_response", "command_response", "none"},
     payload : Payloads]

CacheNext ==
    \/ connect
    \/ connect_return
    \/ \E action_request \in FacadeRequests : send_action(action_request, "None")
    \/ request_get
    \/ request_timeout
    \/ request_written
    \/ request_done_writing
    \/ \E response \in CacheResponses : response_read(response)
    \/ response_end
    \/ get_latest_frame
    \/ disconnect
    \/ disconnect_response_finished
    \/ disconnect_response_timeout
    \/ disconnect_request_finished
    \/ disconnect_request_timeout
    \/ disconnect_return

CacheSpec == Init /\ [][CacheNext]_vars

\* the dispatch, on a session that is not disconnected: requests with a plain
\* or a coroutine callback; image responses of every payload and command
\* responses that answer them
DispatchResponses ==
    [request_id : Ids, field : {"image_response"}, payload : Payloads]
    \cup [request_id : Ids, field : {"command_response"}, payload : {1}]

DispatchNext ==
    \/ connect
    \/ connect_return
    \/ \E action_request \in FacadeRequests, callback \in {"sync", "async"} :
           send_action(action_request, callback)
    \/ request_get
    \/ request_timeout
    \/ request_written
    \/ request_done_writing
    \/ \E response \in DispatchResponses : response_read(response)
    \/ response_callback_done
    \/ response_end

DispatchSpec == Init /\ [][DispatchNext]_vars

\* the life of a session: an engine that listens or not, a stream that
\* delivers nothing, and callers that connect again after a disconnect
LifecycleNext ==
    \/ engine_unreachable
    \/ connect_again
    \/ SendNext

LifecycleSpec == Init /\ [][LifecycleNext]_vars

\* the streaming facades on the sending side: a stream that delivers nothing
FacadeNext ==
    \/ connect
    \/ connect_return
    \/ \E f \in Facades : facade(f)
    \/ request_get
    \/ request_timeout
    \/ request_written
    \/ request_done_writing
    \/ response_end
    \/ disconnect
    \/ disconnect_response_finished
    \/ disconnect_response_timeout
    \/ disconnect_request_finished
    \/ disconnect_request_timeout
    \/ disconnect_return

FacadeSpec == Init /\ [][FacadeNext]_vars

\* the unary calls next to a session that is not disconnected: requests with
\* a plain callback, command responses that answer them, an engine that
\* listens or not
UnaryNext ==
    \/ engine_unreachable
    \/ connect
    \/ connect_return
    \/ \E action_request \in FacadeRequests : send_action(action_request, "sync")
    \/ request_get
    \/ request_timeout
    \/ request_written
    \/ request_done_writing
    \/ \E response \in CallbackResponses : response_read(response)
    \/ response_end
    \/ \E op \in AsyncUnaryOps \cup SyncOps : unary(op)

UnarySpec == Init /\ [][UnaryNext]_vars

\* the inbound side, on a session that is not disconnected: requests with a
\* plain or a coroutine callback; image responses of every payload and
\* responses with no variant set, each under an id that a request has, had or
\* will have
InboundResponses ==
    [request_id : Ids, field : {"image_response"}, payload : Payloads]
    \cup [request_id : Ids, field : {"none"}, payload : {1}]

InboundNext ==
    \/ connect
    \/ connect_return
    \/ \E action_request \in FacadeRequests, callback \in {"sync", "async"} :
           send_action(action_request, callback)
    \/ request_get
    \/ request_timeout
    \/ request_written
    \/ request_done_writing
    \/ \E response \in InboundResponses : response_read(response)
    \/ response_callback_done
    \/ response_end

InboundSpec == Init /\ [][InboundNext]_vars

\* the receive loop next to the callers and the send loop, on a session that
\* is not disconnected: requests with a coroutine callback, image responses of
\* every payload that answer them, callers that read the latest frame
SequentialResponses == [request_id : Ids, field : {"image_response"}, payload : Payloads]

SequentialNext ==
    \/ connect
    \/ connect_return
    \/ \E action_request \in FacadeRequests : send_action(action_request, "async")
    \/ request_get
    \/ request_timeout
    \/ request_written
    \/ request_done_writing
    \/ \E response \in SequentialResponses : response_read(response)
    \/ response_callback_done
    \/ response_end
    \/ get_latest_frame

SequentialSpec == Init /\ [][SequentialNext]_vars

\* the cache next to its readers and the shutdown: requests without
\* callbacks; image responses of every payload and command responses, under
\* no request id or under the id of the first request
KeyedResponses ==
    [request_id : {EmptyId, 1}, field : {"image_response"}, payload : Payloads]
    \cup [request_id : {EmptyId, 1}, field : {"command_response"}, payload : {1}]

KeyedNext ==
    \/ connect
    \/ connect_return
    \/ \E action_request \in FacadeRequests : send_action(action_request, "None")
    \/ request_get
    \/ request_timeout
    \/ request_written
    \/ request_done_writing
    \/ \E response \in KeyedResponses : response_read(response)
    \/ response_end
    \/ get_latest_frame
    \/ disconnect
    \/ disconnect_response_finished
    \/ disconnect_response_timeout
    \/ disconnect_request_finished
    \/ disconnect_request_timeout
    \/ disconnect_return

KeyedSpec == Init /\ [][KeyedNext]_vars

\* the delivery of requests on a session that is never disconnected, over a
\* stream that neither ends nor fails: requests without a callback, with a
\* plain one and with one that raises; an engine that answers, with a command
\* response, the requests that were handed to stream.write
DeliveryResponses == [request_id : Ids, field : {"command_response"}, payload : {1}]

HandedToStream ==
    {written[i].request_id : i \in DOMAIN written}
        \cup (IF request_task = "write" THEN {sendReq.request_id} ELSE {})

DeliveryNext ==
    \/ connect
    \/ connect_return
    \/ \E action_request \in FacadeRequests, callback \in {"None", "sync", "sync_raises"} :
           send_action(action_request, callback)
    \/ request_get
    \/ request_timeout
    \/ request_written
    \/ request_done_writing
    \/ \E response \in DeliveryResponses :
           /\ response.request_id \in HandedToStream
           /\ response_read(response)

\* the send task is scheduled: its bounded wait on the queue ends, a write
\* to the stream returns, and done_writing returns
DeliveryFairness ==
    /\ WF_vars(request_get \/ request_timeout)
    /\ WF_vars(request_written)
    /\ WF_vars(request_done_writing)

DeliverySpec == Init /\ [][DeliveryNext]_vars /\ DeliveryFairness

\* connect called twice: requests without callbacks, command responses that
\* answer no request, on the stream of either connect
TwiceResponses == [request_id : {EmptyId}, field : {"command_response"}, payload : {1}]

TwiceNext ==
    \/ connect
    \/ connect_return
    \/ connect_twice
    \/ \E action_request \in FacadeRequests : send_action(action_request, "None")
    \/ request_get
    \/ request_timeout
    \/ request_written
    \/ request_done_writing
    \/ \E response \in TwiceResponses : response_read(response)
    \/ response_end
    \/ stray_request_timeout
    \/ stray_request_get
    \/ stray_request_written
    \/ stray_request_done_writing
    \/ \E response \in TwiceResponses : stray_response_read(response)
    \/ stray_response_end
    \/ disconnect
    \/ disconnect_response_finished
    \/ disconnect_response_timeout
    \/ disconnect_request_finished
    \/ disconnect_request_timeout
    \/ disconnect_return

TwiceSpec == Init /\ [][TwiceNext]_vars

\* the decoding alone: an image response of any height, width and size is
\* handed to one of the three methods, which decodes it
DecodeInit ==
    /\ SessionInit
    /\ decoded \in DecodeInputs

DecodeNext == decode_frame

DecodeSpec == DecodeInit /\ [][DecodeNext]_vars

(* ---- C1 ---- *)
\* the place of a request in the order of the _send_action calls
SubmitIndex(request) == CHOOSE k \in DOMAIN submitted : submitted[k] = request

\* C1: the requests written to the stream are requests _send_action enqueued,
\* each written once, in the order of the _send_action calls.
C1_FifoOrder ==
    /\ \A i \in DOMAIN written : \E k \in DOMAIN submitted : submitted[k] = written[i]
    /\ \A i, j \in DOMAIN written :
           i < j => SubmitIndex(written[i]) < SubmitIndex(written[j])

\* two requests were written while the session was running
C1_Witness == Len(written) >= 2 /\ Phase = "Running"

(* ---- C3 ---- *)
\* the request was enqueued before disconnect was first called
AcceptedBeforeDisconnect(request) == request.request_id < discAtId

\* C3: when the send loop has left its loop by itself and called done_writing
\* after disconnect was called, and no read or write failed and the stream did
\* not end, every request enqueued before disconnect was called has been written.
C3_GracefulDrain ==
    (discCalls > 0 /\ faults = 0 /\ request_task \in {"done_writing", "done"})
        => \A k \in DOMAIN submitted :
               AcceptedBeforeDisconnect(submitted[k])
                   => \E i \in DOMAIN written : written[i] = submitted[k]

(* ---- C4 ---- *)
\* C4: a _send_action call made after disconnect has ended does not return a
\* request id: it fails.
C4_SubmitAfterCloseFails ==
    lastSubmit.closed
        => (lastSubmit.outcome # "returned" /\ lastSubmit.request_id = EmptyId)

(* ---- C7 ---- *)
\* C7: over any number of disconnect calls the channel is closed at most once
\* and no call ends with an error.
C7_DisconnectIdempotent == closeCalls <= 1 /\ discOutcome \in {"none", "returned"}

(* ---- C10 ---- *)
\* the timers of wait_for fire and channel.close() returns
DisconnectFairness ==
    /\ WF_vars(disconnect_response_finished \/ disconnect_response_timeout)
    /\ WF_vars(disconnect_request_finished \/ disconnect_request_timeout)
    /\ WF_vars(disconnect_return)

FairSendSpec == SendSpec /\ DisconnectFairness

\* C10: a disconnect call that suspends ends: it returns, without an error,
\* with the channel closed, whatever the tasks and the stream do.
C10_DisconnectTerminates ==
    (discPc # "idle")
        ~> (discPc = "idle" /\ channel = "closed" /\ discOutcome = "returned")

\* disconnect has returned after it timed out on the receive loop, which was
\* blocked in a read of a stream that neither delivered nor ended
C10_Witness ==
    /\ discPc = "idle"
    /\ discOutcome = "returned"
    /\ channel = "closed"
    /\ response_task = "cancelled"
    /\ faults = 0

(* ---- C2 ---- *)
\* C2: every callback is called at most once, and once its call is over its
\* entry is no longer in response_handlers.
C2_CallbackOnceAndRemoved ==
    \A id \in Ids :
        /\ invoked[id] <= 1
        /\ (invoked[id] >= 1 /\ ~(response_task = "callback" /\ cbReq = id))
               => ~Registered(response_handlers, id)

(* ---- C5 ---- *)
\* C5: a step in which a callback raises while the session is running leaves
\* the receive loop at its next read and the session running.
C5_RaisingCallbackContained ==
    [][(raised' > raised /\ running) => (response_task' = "read" /\ running')]_vars

(* ---- C6 ---- *)
\* C6: once disconnect has been called, no callback is called.
C6_NoCallbackAfterDisconnect == [][discCalls > 0 => invoked' = invoked]_vars

(* ---- C8 ---- *)
\* C8: get_latest_frame returns None when the stream has delivered no image
\* response, and otherwise the decoded image of the last image response the
\* stream delivered.
C8_LatestFrame ==
    frame.result # "not called"
        => IF frame.seen = Absent
           THEN frame.result = "None"
           ELSE /\ frame.result = "array"
                /\ frame.data = frame.seen
                /\ frame.shape = <<ImageResponse(frame.seen).height,
                                   ImageResponse(frame.seen).width, 3>>

\* two image responses with different payloads were delivered and
\* get_latest_frame returned the second
C8_Witness ==
    /\ Len(imageLog) = 2
    /\ imageLog[1] # imageLog[2]
    /\ frame.result = "array"
    /\ frame.data = imageLog[2]

(* ---- C9 ---- *)
\* C9: no step removes an entry of latest_responses; once disconnect has ended
\* latest_responses is what it was when disconnect ended, and get_latest_frame
\* returns the image it held then.
C9_CacheSurvivesDisconnect ==
    /\ [][\A k \in Kinds :
             latest_responses[k] # Absent => latest_responses'[k] # Absent]_vars
    /\ [](Phase = "Closed" => latest_responses = cacheAtClose)
    /\ [](frame.closed => /\ frame.data = cacheAtClose["image"]
                          /\ frame.result = LatestFrame(cacheAtClose).result)

\* get_latest_frame was called after disconnect had returned and returned the
\* image cached before
C9_Witness ==
    /\ frame.closed
    /\ frame.result = "array"
    /\ channel = "closed"
    /\ frame.data = cacheAtClose["image"]

(* ---- C11 ---- *)
\* C11: a _send_action call made while the session is running, whatever the
\* send loop is doing, ends in the same step: it returns the new request id,
\* the request is at the tail of the queue, and neither the send loop nor the
\* stream has moved.
C11_SubmitNeverWaits ==
    [][(nextId' # nextId /\ Phase = "Running")
          => /\ lastSubmit'.outcome = "returned"
             /\ lastSubmit'.request_id = nextId
             /\ Len(request_queue') = Len(request_queue) + 1
             /\ request_queue'[Len(request_queue')].request_id = nextId
             /\ request_task' = request_task
             /\ written' = written]_vars

\* a _send_action call has returned while the send loop was inside the
\* stream.write of the request before, which is still not over, and its
\* request waits in the queue
C11_Witness ==
    /\ Phase = "Running"
    /\ request_task = "write"
    /\ written = <<>>
    /\ lastSubmit.writing
    /\ lastSubmit.outcome = "returned"
    /\ request_queue # <<>>
    /\ request_queue[Len(request_queue)].request_id = lastSubmit.request_id

(* ---- C12 ---- *)
\* C12: every request id _send_action returns is not empty and differs from
\* every id returned before, and it is the request_id of the request put on
\* the queue, whatever request_id the caller had set.
C12_FreshIdStamped ==
    /\ [](\A i, j \in DOMAIN submitted :
             /\ submitted[i].request_id # EmptyId
             /\ (i # j => submitted[i].request_id # submitted[j].request_id))
    /\ [](lastSubmit.outcome = "returned"
             => /\ lastSubmit.request_id # EmptyId
                /\ submitted[Len(submitted)].request_id = lastSubmit.request_id)
    /\ [][lastSubmit'.outcome = "returned" /\ nextId' # nextId
             => /\ \A k \in DOMAIN submitted :
                       submitted[k].request_id # lastSubmit'.request_id
                /\ request_queue'[Len(request_queue')].request_id
                       = lastSubmit'.request_id]_vars

\* two calls have returned two different ids, the second for a request that
\* came with the id the first call had returned
C12_Witness ==
    /\ Len(submitted) >= 2
    /\ lastSubmit.outcome = "returned"
    /\ lastSubmit.given = submitted[1].request_id
    /\ lastSubmit.request_id = submitted[2].request_id
    /\ submitted[1].request_id # submitted[2].request_id

(* ---- C13 ---- *)
\* C13: the callback called for a response is the one registered under the
\* request id of that response, it is handed that response, and when it is
\* called latest_responses holds the payload of that response under its kind.
C13_StoreBeforeDispatch ==
    /\ [](dispatched # NoDispatch
             => /\ dispatched.handler = dispatched.argument.request_id
                /\ dispatched.cached = dispatched.argument.payload)
    /\ [][\A id \in Ids :
             invoked'[id] > invoked[id]
                 => /\ response_task = "read"
                    /\ dispatched'.handler = id
                    /\ CacheEntry(latest_responses', dispatched'.argument)
                           = dispatched'.argument.payload]_vars

\* the callback of a request was called with the second of two image
\* responses with different payloads, and that payload was in the cache
C13_Witness ==
    /\ Len(imageLog) = 2
    /\ imageLog[1] # imageLog[2]
    /\ dispatched.argument.field = "image_response"
    /\ dispatched.argument.payload = imageLog[2]
    /\ dispatched.cached = imageLog[2]
    /\ dispatched.handler # EmptyId

(* ---- C14 ---- *)
\* C14: when no engine listens at the address, connect does not return: it
\* ends with an error.
C14_ConnectFailsWhenUnreachable == ~reachable => connPc # "done"

(* ---- C15 ---- *)
\* C15: when connect returns, the channel is open, running is set, the queue
\* is made, and the send loop and the receive loop are both inside their loops.
C15_ConnectReturnsRunning ==
    [][(connPc = "sleep" /\ connPc' = "done")
          => /\ channel' = "open"
             /\ running'
             /\ queueExists'
             /\ response_task' \in {"read", "callback"}
             /\ request_task' \in {"get", "write"}]_vars

(* ---- C16 ---- *)
\* C16: once disconnect has been called, no step sets running again and no
\* step starts a send loop or a receive loop.
C16_NoRestartAfterDisconnect ==
    [][discCalls > 0
          => /\ (running' => running)
             /\ (response_task' = "read" => response_task \in {"read", "callback"})
             /\ (request_task' = "get" => request_task \in {"get", "write"})]_vars

C18_SubmitBeforeConnectFails ==
    lastSubmit.created
        => (lastSubmit.outcome = "NotConnectedError" /\ lastSubmit.request_id = EmptyId)

(* ---- C19 ---- *)
\* C19: a call of a streaming facade is one _send_action call and nothing
\* else: one new id is drawn, the facade ends as _send_action ends and returns
\* the id it returns, and the request enqueued carries that id and has one
\* variant set.
C19_FacadeOneSubmit ==
    /\ [](\A k \in DOMAIN submitted : submitted[k].action \in Variants)
    /\ [](\A k \in DOMAIN written : written[k].action \in Variants)
    /\ [][nextId' # nextId
             => /\ nextId' = nextId + 1
                /\ facadeCall'.outcome = lastSubmit'.outcome
                /\ facadeCall'.result = lastSubmit'.request_id
                /\ lastSubmit'.outcome = "returned"
                       => /\ facadeCall'.result = nextId
                          /\ Len(submitted') = Len(submitted) + 1
                          /\ request_queue'
                                 = Append(request_queue, submitted'[Len(submitted')])
                          /\ submitted'[Len(submitted')]
                                 = Envelope(nextId, FacadeVariant(facadeCall'.facade))
                /\ lastSubmit'.outcome # "returned"
                       => request_queue' = request_queue /\ submitted' = submitted
                /\ UNCHANGED <<channel, running, latest_responses, taskVars,
                               streamVars>>]_vars

\* capture.depth and objects.spawn have been called, their requests were
\* written in that order, and objects.spawn returned the id of its request
C19_Witness ==
    /\ Len(written) = 2
    /\ written[1].action = "capture_depth"
    /\ written[2].action = "spawn_object"
    /\ facadeCall.facade = "objects.spawn"
    /\ facadeCall.outcome = "returned"
    /\ facadeCall.result = written[2].request_id

(* ---- C20 ---- *)
\* C20 as stated: every unary call calls one stub method once.
C20_OneRpcPerCall == lastUnary.op # "none" => Len(lastUnary.rpcs) = 1

\* C20, amended: every unary call leaves the queue, response_handlers,
\* latest_responses and the stream as they were, and, unless it is made on an
\* AsyncUESynthClient that was never connected, calls one stub method once.
C20_UnaryLeavesSession ==
    [][lastUnary' # lastUnary
          => /\ UNCHANGED <<request_queue, response_handlers, latest_responses>>
             /\ UNCHANGED <<written, submitted, nextId, taskVars, running>>
             /\ (lastUnary'.op \in SyncOps \/ channel # "None")
                    => Len(lastUnary'.rpcs) = 1]_vars

\* capture.rgb_direct has returned on a running session with a request in
\* the queue, a callback registered and a response cached
C20_Witness ==
    /\ lastUnary.op = "capture.rgb_direct"
    /\ lastUnary.outcome = "returned"
    /\ Len(lastUnary.rpcs) = 1
    /\ request_queue # <<>>
    /\ \E id \in Ids : Registered(response_handlers, id)
    /\ latest_responses["command"] # Absent

(* ---- C21 ---- *)
\* C21: an image response of height h and width w whose buffer holds
\* h * w * c bytes, with h, w and c at least 1, is decoded by
\* get_latest_frame, capture.rgb_direct and the synchronous capture.rgb into
\* an array of shape (h, w, c).
C21_DecodedShape ==
    \A c \in 1..(MaxDim * MaxDim * MaxDim) :
        (/\ decoded.result # "none"
         /\ decoded.height >= 1
         /\ decoded.width >= 1
         /\ decoded.bytes = decoded.height * decoded.width * c)
            => /\ decoded.result = "array"
               /\ decoded.shape = <<decoded.height, decoded.width, c>>

\* capture.rgb_direct has decoded 12 bytes of a response of height 2 and
\* width 3 into an array of shape (2, 3, 2)
C21_Witness ==
    /\ decoded.op = "capture.rgb_direct"
    /\ decoded.height = 2
    /\ decoded.width = 3
    /\ decoded.bytes = 12
    /\ decoded.shape = <<2, 3, 2>>

(* ---- C22 ---- *)
\* C22: while disconnect waits for the receive loop, a step in which the
\* loop has handled a response (the read neither failed nor ended, the task
\* was not cancelled) leaves the loop at its next read, or awaiting the
\* callback of that response.
C22_ReceiveLoopDrains ==
    [][(/\ discPc = "wait_response"
        /\ response_task = "read"
        /\ faults' = faults
        /\ response_task' # "cancelled")
          => response_task' \in {"read", "callback"}]_vars

(* ---- C24 ---- *)
\* C24: when the receive loop has ended, by end of stream, by an error or by
\* cancellation, running is cleared.
C24_StoppedMeansNotRunning == response_task \in {"done", "cancelled"} => ~running

\* the receive loop has ended by itself, on a callback that raised, with no
\* disconnect called, and running is cleared
C24_Witness ==
    /\ response_task = "done"
    /\ raised >= 1
    /\ faults = 0
    /\ discCalls = 0
    /\ ~running

(* ---- C25 ---- *)
\* the bounded wait on the queue ends, a write in progress ends, and
\* done_writing returns
SendLoopFairness ==
    /\ WF_vars(request_get \/ request_timeout)
    /\ WF_vars(request_written \/ request_write_error)
    /\ WF_vars(request_done_writing)

FairLoopSpec == SendSpec /\ SendLoopFairness

\* C25: when running is cleared while the send loop is inside its loop, the
\* send loop leaves the loop and calls done_writing, whether or not the None
\* of disconnect is ever taken from the queue.
C25_SendLoopObservesShutdown ==
    (~running /\ request_task \in {"get", "write"})
        ~> (request_task \in {"done_writing", "done", "cancelled"} /\ doneWriting >= 1)

\* the send loop has ended and called done_writing after the receive loop
\* had ended, with no disconnect called and so no None in the queue
C25_Witness ==
    /\ request_task = "done"
    /\ doneWriting = 1
    /\ discCalls = 0
    /\ ~running
    /\ response_task = "done"

(* ---- C26 ---- *)
\* the step in which stream.write raises: a fault is counted and the receive
\* loop has not moved
WriteFails == request_task = "write" /\ faults' > faults /\ response_task' = response_task

\* the step in which stream.read raises or reports the end of the stream: a
\* fault is counted and the send loop has not moved
ReadFails == response_task = "read" /\ faults' > faults /\ request_task' = request_task

\* C26: a step in which stream.write raises leaves the send loop and clears
\* running.
C26_WriteErrorStopsSession ==
    [][WriteFails => (request_task' = "done_writing" /\ ~running')]_vars

(* ---- C27 ---- *)
\* C27: a write that raises and a read that raises or ends are the last of
\* their loop: the failing step leaves the loop, a loop that is left is never
\* entered again, and a request is handed to stream.write when it is taken off
\* the queue and at no other time.
C27_NoRetry ==
    /\ [][WriteFails => request_task' = "done_writing"]_vars
    /\ [][ReadFails => response_task' = "done"]_vars
    /\ [][(request_task \in {"done_writing", "done", "cancelled"})
             => request_task' \in {"done_writing", "done", "cancelled"}]_vars
    /\ [][(response_task \in {"done", "cancelled"})
             => response_task' \in {"done", "cancelled"}]_vars
    /\ [][(request_task' = "write" /\ request_task # "write")
             => /\ request_queue # <<>>
                /\ sendReq' = Head(request_queue)
                /\ request_queue' = Tail(request_queue)]_vars
    /\ [](\A i, j \in DOMAIN written : i # j => written[i] # written[j])
    /\ [](request_task = "write" => \A i \in DOMAIN written : written[i] # sendReq)

\* the write of the first request has failed and the send loop has ended;
\* the second request is still in the queue and nothing was written
C27_Witness ==
    /\ request_task = "done"
    /\ response_task = "read"
    /\ faults = 1
    /\ written = <<>>
    /\ Len(submitted) = 2
    /\ request_queue = <<submitted[2]>>

(* ---- C23 ---- *)
\* C23: in the step that handles a response, the entry of latest_responses
\* for its kind holds its payload afterwards, whether a callback is registered
\* under its request id or not, and the callback registered under its request
\* id is called with it, whether its kind has an entry or not.
C23_BothSteps ==
    [][\A r \in InboundResponses :
          response_read(r)
              => /\ CacheKey(r.field) \in Kinds
                       => latest_responses'[CacheKey(r.field)] = r.payload
                 /\ (r.request_id \in Ids /\ response_handlers[r.request_id] # "None")
                       => /\ invoked'[r.request_id] = invoked[r.request_id] + 1
                          /\ dispatched'.argument = r]_vars

\* an image response that answers no request has been stored, and the one
\* callback called so far was called with a response with no variant set
C23_Witness ==
    /\ imageLog # <<>>
    /\ latest_responses["image"] = LastImage(imageLog)
    /\ dispatched.argument.field = "none"
    /\ dispatched.handler # EmptyId
    /\ \A id \in Ids : invoked[id] = IF id = dispatched.handler THEN 1 ELSE 0

(* ---- C28 ---- *)
\* C28: while the coroutine callback of a response has not returned, no
\* step stores a response or calls a callback, whatever the callers and the
\* send loop do; the receive loop reads again only when the entry of that
\* callback is removed.
C28_InboundSequential ==
    /\ [][cbReq # EmptyId
             => /\ latest_responses' = latest_responses
                /\ invoked' = invoked
                /\ dispatched' = dispatched
                /\ imageLog' = imageLog]_vars
    /\ [](cbReq # EmptyId => response_task = "callback")
    /\ [][(response_task = "callback" /\ response_task' # "callback")
             => /\ cbReq' = EmptyId
                /\ ~Registered(response_handlers', cbReq)]_vars

\* a coroutine callback is running for the second image response; the
\* callback of the first has returned and its entry is removed
C28_Witness ==
    /\ response_task = "callback"
    /\ Len(imageLog) = 2
    /\ \A id \in Ids : invoked[id] = 1
    /\ \E id \in Ids : id # cbReq /\ ~Registered(response_handlers, id)
    /\ dispatched.handler = cbReq

(* ---- C29 ---- *)
\* C29: a response of a kind replaces the entry of latest_responses under that
\* kind by its payload, whatever its request id, and leaves every other entry
\* as it was; a step that changes latest_responses is a step of the receive
\* loop storing a response, so get_latest_frame, _send_action and disconnect
\* leave it as it is.
C29_CacheKeyedByKind ==
    /\ [][\A r \in KeyedResponses :
              response_read(r)
                  => \A k \in Kinds :
                         latest_responses'[k] = IF k = CacheKey(r.field) THEN r.payload
                                                ELSE latest_responses[k]]_vars
    /\ [][latest_responses' # latest_responses
              => response_task = "read" /\ \E r \in KeyedResponses : response_read(r)]_vars

\* an image was replaced by the image of a later response while the command
\* entry stored before stayed, requests were submitted, and get_latest_frame
\* was called after disconnect had returned
C29_Witness ==
    /\ Len(imageLog) = 2
    /\ imageLog[1] # imageLog[2]
    /\ latest_responses["image"] = imageLog[2]
    /\ latest_responses["command"] # Absent
    /\ nextId > 1
    /\ frame.closed
    /\ frame.data = imageLog[2]

(* ---- C30 ---- *)
\* C30: between the step that stores a response and the step that removes
\* the entry of its callback, no other task changes the shared state: no
\* _send_action call adds an entry to response_handlers or an item to the
\* queue.
C30_OneCriticalSection ==
    [][(response_task = "callback" /\ response_task' = "callback")
          => /\ response_handlers' = response_handlers
             /\ request_queue' = request_queue
             /\ nextId' = nextId]_vars

(* ---- C33 ---- *)
\* C33: a _send_action call that raises leaves response_handlers and the
\* queue as they were: called with a callback on a client that was never
\* connected, it adds no entry to response_handlers.
C33_FailedSubmitChangesNothing ==
    [][(nextId' > nextId /\ lastSubmit'.outcome # "returned")
          => /\ response_handlers' = response_handlers
             /\ request_queue' = request_queue
             /\ submitted' = submitted]_vars

(* ---- C34 ---- *)
\* C34: with no disconnect, no error on the stream and no end of the stream,
\* and with the send task scheduled, the i-th request that _send_action put
\* on the queue of a running session is in the end the i-th request written
\* to the stream.
C34_AcceptedIsWritten ==
    \A i \in 1..MaxSubmit :
        (Phase = "Running" /\ running /\ Len(submitted) >= i)
            ~> (Len(written) >= i /\ written[i] = submitted[i])

(* ---- C35 ---- *)
\* C35: at every moment of a connection the requests written to the stream
\* are the first requests _send_action enqueued, in the same places: none is
\* written before one enqueued earlier, and the None that disconnect puts on
\* the queue is never written.
C35_WrittenIsPrefix ==
    /\ Len(written) <= Len(submitted)
    /\ written = SubSeq(submitted, 1, Len(written))
    /\ \A i \in DOMAIN written : written[i].action # NoneItem.action

\* the send loop has written a request, has taken the None of disconnect from
\* the queue and has ended, while a request enqueued later was left unwritten
C35_Witness ==
    /\ Len(written) >= 1
    /\ Len(submitted) > Len(written)
    /\ discCalls = 1
    /\ request_queue # <<>>
    /\ \A i \in DOMAIN request_queue : request_queue[i] # NoneItem
    /\ request_task = "done"
    /\ faults = 0

(* ---- C36 ---- *)
\* C36: the send loop of a connection calls done_writing once, when it leaves
\* its loop (on None, on running cleared, on a write that raised or on its
\* cancellation) and not before, and nothing is written to the stream after
\* the call.
C36_DoneWritingOnceAndLast ==
    /\ [](doneWriting = IF request_task \in {"done_writing", "done", "cancelled"}
                        THEN 1 ELSE 0)
    /\ [][doneWriting >= 1 => written' = written]_vars

\* the send loop was cancelled by disconnect while it awaited a write, after
\* it had written a request: done_writing was called once, by its finally
\* block
C36_Witness ==
    /\ request_task = "cancelled"
    /\ doneWriting = 1
    /\ Len(written) = 1
    /\ Len(submitted) = 2
    /\ request_queue = <<NoneItem>>
    /\ faults = 0

(* ---- C37 ---- *)
\* C37: disconnect calls channel.close() only when both tasks have ended, by
\* themselves or cancelled after the timeout: while the channel is closed no
\* task awaits a read of the stream, a callback, an item of the queue, a
\* write or done_writing.
C37_CloseAfterLoops ==
    /\ [](channel = "closed"
              => /\ response_task \in {"None", "done", "cancelled"}
                 /\ request_task \in {"None", "done", "cancelled"})
    /\ [][closeCalls' > closeCalls
              => /\ response_task' \in {"None", "done", "cancelled"}
                 /\ request_task' \in {"None", "done", "cancelled"}]_vars

\* disconnect is closing the channel after the receive loop had ended by
\* itself and the send loop, stalled in a write, was cancelled
C37_Witness ==
    /\ channel = "closed"
    /\ discPc = "closing"
    /\ discCalls = 1
    /\ response_task = "done"
    /\ request_task = "cancelled"
    /\ Len(written) < Len(submitted)

(* ---- C38 ---- *)
\* C38: a callback is called only for a response that carries the request id
\* under which a _send_action call registered it, the id of that call, and
\* is handed that response; a response whose request id is empty or has no
\* entry in response_handlers calls no callback and leaves response_handlers
\* as it was.
C38_CallbackOnlyForItsId ==
    /\ [][\A id \in Ids :
              invoked'[id] > invoked[id]
                  => /\ Registered(response_handlers, id)
                     /\ id < nextId
                     /\ dispatched'.handler = id
                     /\ dispatched'.argument.request_id = id]_vars
    /\ [][nextId' > nextId
              => \A id \in Ids \ {nextId} :
                     response_handlers'[id] = response_handlers[id]]_vars
    /\ [][\A r \in CallbackResponses :
              (response_read(r) /\ ~Registered(response_handlers, r.request_id))
                  => /\ invoked' = invoked
                     /\ dispatched' = dispatched
                     /\ response_handlers' = response_handlers]_vars

\* the callback of the second request was called, with the response that
\* carries the id of the second request, while the callback of the first is
\* still registered and was never called
C38_Witness ==
    /\ invoked = [id \in Ids |-> IF id = 2 THEN 1 ELSE 0]
    /\ dispatched.handler = 2
    /\ dispatched.argument.request_id = 2
    /\ Registered(response_handlers, 1)
    /\ ~Registered(response_handlers, 2)
    /\ Phase = "Running"

(* ---- C39 ---- *)
\* C39: within one connect, no request that _send_action enqueued after
\* disconnect was called is written to the stream: it stays on the queue
\* behind the None.
C39_NothingWrittenAfterDisconnect ==
    discCalls > 0
        => \A i \in DOMAIN written : AcceptedBeforeDisconnect(written[i])

\* a request was enqueued while disconnect was waiting for the tasks; the
\* send loop, which had written a request before, took the None and ended,
\* and the request is still on the queue
C39_Witness ==
    /\ discCalls = 1
    /\ lastSubmit.outcome = "returned"
    /\ ~lastSubmit.closed
    /\ lastSubmit.request_id >= discAtId
    /\ request_task = "done"
    /\ request_queue = <<submitted[Len(submitted)]>>
    /\ Len(written) = 1
    /\ faults = 0

(* ---- C32 ---- *)
\* the send loops and the receive loops of the client that have not ended
SendLoops ==
    (IF LiveTask(request_task) THEN 1 ELSE 0) + (IF LiveTask(strayRequest) THEN 1 ELSE 0)

RecvLoops ==
    (IF LiveTask(response_task) THEN 1 ELSE 0)
        + (IF LiveTask(strayResponse) THEN 1 ELSE 0)

\* C32: whatever connect and disconnect calls are made, a client has at most
\* one send loop and at most one receive loop that have not ended.
C32_OneLoopEach == SendLoops <= 1 /\ RecvLoops <= 1

(* ---- C31 ---- *)
\* what a client can tell of itself: its flag, the contents of the queue and
\* of the two dicts its fields hold, the requests written to its stream and
\* the callbacks called
ClientView(t) ==
    [running |-> clients[t].running,
     queue |-> queues[QueueOf(t)],
     handlers |-> handlerDicts[HandlersOf(t)],
     latest |-> latestDicts[LatestOf(t)],
     written |-> clients[t].written,
     fired |-> clients[t].fired]

\* C31: a step of one client or of its tasks (connect, _send_action, a pass
\* of its send loop, a response on its stream, disconnect) leaves the queue,
\* response_handlers, latest_responses and running of the other client, the
\* requests written to its stream and the callbacks called on it as they
\* were.
C31_ClientsApart ==
    [][\A s \in Sessions :
          ClientStep(s)
              => \A t \in Sessions \ {s} : ClientView(t)' = ClientView(t)]_vars

\* client A has written a request, had a callback called and is disconnected,
\* while client B, running, has a request on its queue and a callback
\* registered under the same id, which was not called
C31_Witness ==
    /\ clients["A"].disc = "done"
    /\ clients["A"].written # <<>>
    /\ clients["A"].fired = <<1>>
    /\ clients["B"].running
    /\ clients["B"].fired = <<>>
    /\ queues[QueueOf("B")] # <<>>
    /\ handlerDicts[HandlersOf("B")][1] = "sync"
    /\ handlerDicts[HandlersOf("A")][1] = "None"
    /\ latestDicts[LatestOf("A")] # Absent
    /\ latestDicts[LatestOf("B")] = Absent

====
